---- MODULE Spec2Model ----
(***************************************************************************)
(* whatsfly/whatsapp.py: the WhatsApp class, a bridge between Python       *)
(* callers and the native whatsmeow client.  The model has                 *)
(*   - the pump thread (_messageThread), which drives the native layer;    *)
(*     the native layer calls _handleMessage on that thread,               *)
(*   - caller threads running getGroupInfo / getGroupInviteLink, which     *)
(*     poll the _methodReturns dict,                                       *)
(*   - connect / disconnect,                                               *)
(*   - the native layer as an environment producing raw event buffers.     *)
(***************************************************************************)
EXTENDS Integers, Sequences, FiniteSets, TLC

(* ---------------------------- bounds ---------------------------------- *)

\* how many request/response calls are made in one run
MaxCalls == 2
\* how many raw events the native layer produces in one run
MaxEvents == 2

Callers == {"t1", "t2"}
\* the threads that can be inside a request/response call: the caller threads
\* and the pump thread (a handler runs on it)
PumpThread == "pump"
Threads == Callers \cup {PumpThread}
Payloads == {"pA", "pB"}
Codes == {"ABC-123"}

\* the strings uuid1() values print as
UuidNames == <<"uuid-1", "uuid-2", "uuid-3", "uuid-4">>

\* UuidStr from a clock too coarse to tell two calls apart
UuidStr_coarseClock(n) == UuidNames[1]

\* str(uuid.uuid1()) of the n-th uuid1() call of the process
UuidStr(n) == UuidNames[n]
\* a call id no call of this client generated
StaleId == "uuid-0"

\* the two request/response operations have the same body but for the native
\* entry point: caller thread t1 runs getGroupInfo, t2 getGroupInviteLink
OpOf(t) == IF t = "t1" THEN "getGroupInfo" ELSE "getGroupInviteLink"

(* -------------------- python values of _handleMessage ------------------ *)

\* A python dict is [py |-> "dict", d |-> a function from its keys to strings].

LinkCodeEvent(c) == [py |-> "dict", d |-> [k \in {"eventType", "code"} |->
                        IF k = "eventType" THEN "linkCode" ELSE c]]
QrCodeEvent(c) == [py |-> "dict", d |-> [k \in {"eventType", "code"} |->
                        IF k = "eventType" THEN "qrCode" ELSE c]]
MethodReturnEvent(id, p) == [py |-> "dict", d |-> [k \in {"eventType", "callid", "return"} |->
                        IF k = "eventType" THEN "methodReturn"
                        ELSE IF k = "callid" THEN id ELSE p]]
\* an event type _handleMessage has no case for
OtherEvent == [py |-> "dict", d |-> [k \in {"eventType"} |-> "message"]]
\* a JSON object without the eventType key
NoTypeObject == [py |-> "dict", d |-> [k \in {"code"} |-> "ABC-123"]]
\* text that is not JSON
NotJson == [py |-> "none", d |-> <<>>]

\* A raw buffer handed to the event callback: its byte encoding and the
\* document the bytes spell.  enc = "utf8": valid UTF-8; "invalid": bytes
\* that are text in no encoding.
Raw(enc, doc) == [py |-> "bytes", enc |-> enc, doc |-> doc]

WellFormedBroadcast ==
    {LinkCodeEvent(c) : c \in Codes} \cup {QrCodeEvent(c) : c \in Codes} \cup {OtherEvent}

\* buffers that are not valid UTF-8, not valid JSON, or lack eventType
MalformedRaw ==
    { Raw("invalid", NotJson), Raw("utf8", NotJson), Raw("utf8", NoTypeObject) }

\* the empty dict {}
EmptyDict == [k \in {} |-> ""]

\* d[k] = v on a python dict
Put(d, k, v) == [x \in DOMAIN d \cup {k} |-> IF x = k THEN v ELSE d[x]]

\* message.decode() inside try/except: bytes that are valid UTF-8 become a str,
\* anything else is printed and left as it is
Decode(m) ==
    IF m.py = "bytes" /\ m.enc = "utf8" THEN [py |-> "str", doc |-> m.doc] ELSE m

\* json.loads(message) inside try/except: a str that is JSON becomes the
\* document; otherwise (the bytes that did not decode included) the message is
\* printed and left as it is
JsonLoads(m) ==
    IF m.py = "str" /\ m.doc.py # "none" THEN m.doc ELSE m

\* whether message[k] evaluates (otherwise it raises TypeError or KeyError)
HasKey(m, k) == m.py = "dict" /\ k \in DOMAIN m.d

\* the value _handleMessage works on after its two try blocks
Parsed(raw) == JsonLoads(Decode(raw))

\* Classify with the return of case "methodReturn" lost: the event falls
\* through to the for loop
Classify_fallThrough(m, printFlag) ==
    IF ~HasKey(m, "eventType") THEN "raise"
    ELSE IF m.d["eventType"] \in {"linkCode", "qrCode"}
         THEN IF printFlag /\ ~HasKey(m, "code") THEN "raise" ELSE "forward"
    ELSE "forward"

\* Classify with a default case that rejects event types it does not know
Classify_unknownRaises(m, printFlag) ==
    IF ~HasKey(m, "eventType") THEN "raise"
    ELSE IF m.d["eventType"] \in {"linkCode", "qrCode"}
         THEN IF printFlag /\ ~HasKey(m, "code") THEN "raise" ELSE "forward"
    ELSE IF m.d["eventType"] = "methodReturn"
         THEN IF HasKey(m, "callid") THEN "store" ELSE "raise"
    ELSE "raise"

\* what the match statement does with the parsed message:
\*   "raise"   message["eventType"] (or a field of the case) raises
\*   "store"   case "methodReturn"
\*   "forward" every other case, after the prints of linkCode / qrCode
Classify(m, printFlag) ==
    IF ~HasKey(m, "eventType") THEN "raise"
    ELSE IF m.d["eventType"] \in {"linkCode", "qrCode"}
         THEN IF printFlag /\ ~HasKey(m, "code") THEN "raise" ELSE "forward"
    ELSE IF m.d["eventType"] = "methodReturn"
         THEN IF HasKey(m, "callid") THEN "store" ELSE "raise"
    ELSE "forward"

\* Prints that does not look at print_qr_code
Prints_ignoresFlag(m, printFlag) ==
    IF ~HasKey(m, "eventType") \/ ~HasKey(m, "code") THEN <<>>
    ELSE IF m.d["eventType"] = "linkCode" THEN << <<"text", m.d["code"]>> >>
    ELSE IF m.d["eventType"] = "qrCode"
         THEN << <<"text", m.d["code"]>>, <<"ascii", m.d["code"]>> >>
    ELSE <<>>

\* what cases "linkCode" and "qrCode" print
Prints(m, printFlag) ==
    IF ~printFlag \/ ~HasKey(m, "eventType") \/ ~HasKey(m, "code") THEN <<>>
    ELSE IF m.d["eventType"] = "linkCode" THEN << <<"text", m.d["code"]>> >>
    ELSE IF m.d["eventType"] = "qrCode"
         THEN << <<"text", m.d["code"]>>, <<"ascii", m.d["code"]>> >>
    ELSE <<>>

\* StoreReturn that overwrites the entries the table has with the new message
StoreReturn_overwritesAll(tbl, m) ==
    [k \in DOMAIN tbl \cup {m.d["callid"]} |-> m]

\* self._methodReturns[message["callid"]] = message
StoreReturn(tbl, m) == Put(tbl, m.d["callid"], m)

\* str(return_uuid) in self._methodReturns
HasReturn(tbl, id) == id \in DOMAIN tbl

\* Response reading an entry of the table that need not be the caller's
Response_anyEntry(tbl, id) == tbl[CHOOSE k \in DOMAIN tbl : TRUE].d["return"]

\* self._methodReturns[str(return_uuid)]["return"]
Response(tbl, id) == tbl[id].d["return"]

(* ----------------------- fire-and-forget results ----------------------- *)

\* python values a method returns: a bool (True is 1, False is 0), an int
PyBool(b) == [py |-> "bool", v |-> IF b THEN 1 ELSE 0]
PyInt(n) == [py |-> "int", v |-> n]
PyNone == [py |-> "NoneType", v |-> 0]
\* no such method has been called
NoCall == [op |-> "None", status |-> 0, result |-> PyNone]

\* the status codes followed
MaxStatus == 2
\* what a native send / set / join wrapper returns: a status code
NativeStatus == 0..MaxStatus

GroupOps == {"joinGroupWithInviteLink", "setGroupAnnounce", "setGroupLocked",
             "setGroupName", "setGroupTopic"}

\* Result with one success code, 0, for every send
Result_zeroIsSuccess(operation, ret) ==
    IF operation \in {"sendMessage", "sendImage", "sendVideo"}
    THEN PyBool(ret = 0)
    ELSE PyInt(ret)

\* what the method returns when its native wrapper returned ret
Result(operation, ret) ==
    CASE operation = "sendMessage" -> PyBool(ret = 0)
      [] operation \in {"sendImage", "sendVideo"} -> PyBool(ret = 1)
      [] OTHER -> PyInt(ret)

(* ------------------------------ state --------------------------------- *)

VARIABLES
    on_event_callable,   \* callable(on_event): the event callback is registered
    print_qr_code,       \* self.print_qr_code
    userEventHandlers,   \* self._userEventHandlers
    methodReturns,       \* self._methodReturns
    connection,          \* native client: "new", "connected", "disconnected"
    requested,           \* call ids the native layer received with a query
    uuidCount,           \* how many uuid1() calls were made
    pc,                  \* per caller thread: where it is in its call
    return_uuid,         \* per caller thread: str(return_uuid)
    response,            \* per caller thread: the value its last call returned
    pumpPc,              \* pump thread: "step" or "handlers" (inside the for loop)
    message,             \* pump thread: the message being forwarded
    handlerIdx,          \* pump thread: position in the for loop
    calls,               \* log: handler invocations <<index, message>>
    printed,             \* log: what was printed
    delivered,           \* log: raw events the callback was invoked with
    outcomes,            \* log: how each callback invocation ended
    waitingAtDisconnect, \* log: the callers that were polling when disconnect ran
    c_WhatsAppClientId,  \* self.c_WhatsAppClientId, "None" until the handle exists
    pumpThreads,         \* how many threads run _messageThread
    lastCall             \* log: the last call of a method that waits for no
                         \* event, its native status and what it returned

vars == <<on_event_callable, print_qr_code, userEventHandlers, methodReturns,
          connection, requested, uuidCount, pc,
          return_uuid, response, pumpPc, message, handlerIdx, calls, printed,
          delivered, outcomes, waitingAtDisconnect, c_WhatsAppClientId,
          pumpThreads, lastCall>>

configVars == <<on_event_callable, print_qr_code, userEventHandlers>>
connVars == <<connection, waitingAtDisconnect>>
lifeVars == <<c_WhatsAppClientId, pumpThreads>>
callerVars == <<uuidCount, pc, return_uuid, response>>
pumpVars == <<pumpPc, message, handlerIdx, calls, printed, delivered, outcomes>>

NoValue == "None"

\* callable(on_event) decides whether _handleMessage is handed to the native
\* layer as event callback or a null pointer is
CallbackRegistered_always(callable) == TRUE

CallbackRegistered(callable) == callable

\* how many pump threads an operation starts
PumpsStartedBy_legacyRun(operation) ==
    IF operation \in {"__init__", "runMessageThread"} THEN 1 ELSE 0

PumpsStartedBy(operation) == IF operation = "__init__" THEN 1 ELSE 0

\* WhatsApp.__init__ up to new_whatsapp_client_wrapper: the fields are set, the
\* pump thread object exists and is not started
Init ==
    /\ on_event_callable \in BOOLEAN
    /\ print_qr_code \in BOOLEAN
    /\ userEventHandlers = <<"on_event">>
    /\ methodReturns = EmptyDict
    /\ connection = "new"
    /\ requested = {}
    /\ uuidCount = 0
    /\ pc = [t \in Threads |-> "idle"]
    /\ return_uuid = [t \in Threads |-> NoValue]
    /\ response = [t \in Threads |-> NoValue]
    /\ pumpPc = "step"
    /\ message = NotJson
    /\ handlerIdx = 0
    /\ calls = <<>>
    /\ printed = <<>>
    /\ delivered = <<>>
    /\ outcomes = <<>>
    /\ waitingAtDisconnect = {}
    /\ c_WhatsAppClientId = NoValue
    /\ pumpThreads = 0
    /\ lastCall = NoCall

\* self.c_WhatsAppClientId = new_whatsapp_client_wrapper(...)
newClient ==
    /\ c_WhatsAppClientId = NoValue
    /\ c_WhatsAppClientId' = "client-1"
    /\ UNCHANGED <<lastCall, configVars, methodReturns, connVars, requested, callerVars,
                   pumpVars, pumpThreads>>

\* self._messageThreadRunner.start(), the last statement of __init__
startPump ==
    /\ c_WhatsAppClientId # NoValue
    /\ pumpThreads = 0
    /\ pumpThreads' = pumpThreads + PumpsStartedBy("__init__")
    /\ UNCHANGED <<lastCall, configVars, methodReturns, connVars, requested, callerVars,
                   pumpVars, c_WhatsAppClientId>>

\* the constructor has returned: the public methods can be called
Constructed == c_WhatsAppClientId # NoValue /\ pumpThreads > 0

\* more pump threads than this are not followed
MaxPumps == 2

\* runMessageThread: a deprecation warning and a notice, nothing else; it
\* returns None
runMessageThread ==
    /\ Constructed
    /\ pumpThreads < MaxPumps
    /\ pumpThreads' = pumpThreads + PumpsStartedBy("runMessageThread")
    /\ lastCall' = [op |-> "runMessageThread", status |-> 0, result |-> PyNone]
    /\ UNCHANGED <<configVars, methodReturns, connVars, requested, callerVars,
                   pumpVars, c_WhatsAppClientId>>

(* --------------------------- connect / disconnect ---------------------- *)

\* connect_wrapper(self.c_WhatsAppClientId); a run has one session: the
\* client is connected once and disconnected once
connect ==
    /\ Constructed
    /\ connection = "new"
    /\ connection' = "connected"
    /\ UNCHANGED <<lastCall, configVars, methodReturns, requested, callerVars, pumpVars,
                   waitingAtDisconnect, lifeVars>>

\* disconnect_wrapper(self.c_WhatsAppClientId): nothing else, the calls that
\* are polling are left as they are
disconnect ==
    /\ Constructed
    /\ connection = "connected"
    /\ connection' = "disconnected"
    /\ waitingAtDisconnect' = {t \in Callers : pc[t] \in {"check", "sleep"}}
    /\ UNCHANGED <<lastCall, configVars, methodReturns, requested, callerVars, pumpVars, lifeVars>>

(* ------------------ getGroupInfo / getGroupInviteLink ------------------ *)

\* return_uuid = uuid.uuid1()
Uuid1(t) ==
    /\ pc[t] \in {"idle", "done"}
    /\ uuidCount < MaxCalls
    /\ uuidCount' = uuidCount + 1
    /\ return_uuid' = [return_uuid EXCEPT ![t] = UuidStr(uuidCount + 1)]
    /\ response' = [response EXCEPT ![t] = NoValue]
    /\ pc' = [pc EXCEPT ![t] = "query"]
    /\ UNCHANGED <<lastCall, lifeVars, configVars, methodReturns, connVars, requested, pumpVars>>

\* error = get_group_info_wrapper(...) / get_group_invite_link_wrapper(...)
Query(t) ==
    /\ pc[t] = "query"
    /\ requested' = requested \cup {return_uuid[t]}
    /\ pc' = [pc EXCEPT ![t] = "check"]
    /\ UNCHANGED <<lastCall, lifeVars, configVars, methodReturns, connVars,
                   uuidCount, return_uuid, response, pumpVars>>

\* while not str(return_uuid) in self._methodReturns:
Check(t) ==
    /\ pc[t] = "check"
    /\ pc' = [pc EXCEPT ![t] = IF HasReturn(methodReturns, return_uuid[t])
                                THEN "read" ELSE "sleep"]
    /\ UNCHANGED <<lastCall, lifeVars, configVars, methodReturns, connVars, requested, uuidCount,
                   return_uuid, response, pumpVars>>

\*     time.sleep(0.001)
Sleep(t) ==
    /\ pc[t] = "sleep"
    /\ pc' = [pc EXCEPT ![t] = "check"]
    /\ UNCHANGED <<lastCall, lifeVars, configVars, methodReturns, connVars, requested, uuidCount,
                   return_uuid, response, pumpVars>>

\* response = self._methodReturns[str(return_uuid)]["return"]; return response
Read(t) ==
    /\ pc[t] = "read"
    /\ IF return_uuid[t] \in DOMAIN methodReturns
          /\ "return" \in DOMAIN methodReturns[return_uuid[t]].d
       THEN /\ response' = [response EXCEPT ![t] = Response(methodReturns, return_uuid[t])]
            /\ pc' = [pc EXCEPT ![t] = "done"]
       ELSE /\ response' = response
            /\ pc' = [pc EXCEPT ![t] = "raised"]
    /\ UNCHANGED <<lastCall, lifeVars, configVars, methodReturns, connVars, requested, uuidCount,
                   return_uuid, pumpVars>>

RequestStep(t, o) ==
    /\ Constructed
    /\ OpOf(t) = o
    /\ (Uuid1(t) \/ Query(t) \/ Check(t) \/ Sleep(t) \/ Read(t))

getGroupInfo(t) == RequestStep(t, "getGroupInfo")

getGroupInviteLink(t) == RequestStep(t, "getGroupInviteLink")

(* --------------------------- the native layer -------------------------- *)

\* the raw buffers the native layer can hand to the event callback: the answer
\* to a query it received (more than once, too), an answer with a call id
\* nobody issued, a broadcast event, or a buffer that is not a JSON object
\* with an eventType
RawEvents ==
    { Raw("utf8", MethodReturnEvent(id, p)) : id \in requested, p \in Payloads }
    \cup { Raw("utf8", MethodReturnEvent(StaleId, "pA")) }
    \cup { Raw("utf8", e) : e \in WellFormedBroadcast }
    \cup MalformedRaw

(* ----------------------- _messageThread / _handleMessage --------------- *)

\* _handleMessage(raw) up to the for loop
handleMessage(raw) ==
    LET m == Parsed(raw)
        c == Classify(m, print_qr_code)
    IN  /\ printed' = printed \o Prints(m, print_qr_code)
        /\ CASE c = "raise" ->
                   \* the exception leaves _handleMessage; the ctypes callback
                   \* wrapper reports it and the pump goes on
                   /\ outcomes' = Append(outcomes, "raised")
                   /\ UNCHANGED <<methodReturns, pumpPc, message, handlerIdx>>
             [] c = "store" ->
                   /\ methodReturns' = StoreReturn(methodReturns, m)
                   /\ outcomes' = Append(outcomes, "returned")
                   /\ UNCHANGED <<pumpPc, message, handlerIdx>>
             [] c = "forward" ->
                   /\ pumpPc' = "handlers"
                   /\ message' = m
                   /\ handlerIdx' = 1
                   /\ UNCHANGED <<methodReturns, outcomes>>
        /\ calls' = calls

\* PumpReady of a pump whose driver step is entered again while a callback of
\* an earlier step is still running
PumpReady_reentered(p) == TRUE

\* the while True loop calls message_thread_wrapper again only when the call
\* before, and the callback inside it, has returned
PumpReady(p) == p = "step"

\* one message_thread_wrapper(self.c_WhatsAppClientId) of the while True loop
\* in which the native layer has an event: it calls the registered event
\* callback with it, on this thread; with no callback registered the event
\* goes nowhere
messageThread ==
    /\ pumpThreads > 0
    /\ PumpReady(pumpPc)
    /\ Len(delivered) < MaxEvents
    /\ \E raw \in RawEvents :
         IF CallbackRegistered(on_event_callable)
         THEN /\ delivered' = Append(delivered, raw)
              /\ handleMessage(raw)
         ELSE UNCHANGED <<methodReturns, pumpVars>>
    /\ UNCHANGED <<lastCall, lifeVars, configVars, connVars, requested, callerVars>>

\* for handler in self._userEventHandlers: handler(message)
\* the handler is user code: it returns or it raises (an on_event that is not
\* callable raises TypeError)
forwardToHandler ==
    /\ pumpPc = "handlers"
    /\ handlerIdx <= Len(userEventHandlers)
    /\ calls' = Append(calls, <<handlerIdx, message>>)
    /\ \E handlerRaises \in (IF on_event_callable THEN BOOLEAN ELSE {TRUE}) :
         IF handlerRaises
         THEN /\ outcomes' = Append(outcomes, "raised")
              /\ pumpPc' = "step"
              /\ handlerIdx' = 0
         ELSE IF handlerIdx = Len(userEventHandlers)
              THEN /\ outcomes' = Append(outcomes, "returned")
                   /\ pumpPc' = "step"
                   /\ handlerIdx' = 0
              ELSE /\ outcomes' = outcomes
                   /\ pumpPc' = pumpPc
                   /\ handlerIdx' = handlerIdx + 1
    /\ UNCHANGED <<lastCall, lifeVars, configVars, methodReturns, connVars, requested, callerVars,
                   message, printed, delivered>>

\* handler(message) where the handler calls getGroupInfo: the call runs on the
\* pump thread, inside the event callback
handlerCallsGetGroupInfo ==
    /\ pumpPc = "handlers"
    /\ handlerIdx <= Len(userEventHandlers)
    /\ on_event_callable
    /\ uuidCount < MaxCalls
    /\ calls' = Append(calls, <<handlerIdx, message>>)
    /\ pumpPc' = "inHandler"
    /\ uuidCount' = uuidCount + 1
    /\ return_uuid' = [return_uuid EXCEPT ![PumpThread] = UuidStr(uuidCount + 1)]
    /\ pc' = [pc EXCEPT ![PumpThread] = "query"]
    /\ UNCHANGED <<lastCall, lifeVars, configVars, methodReturns, connVars, requested,
                   response, message, handlerIdx, printed, delivered, outcomes>>

\* the handler's getGroupInfo returned or raised: so does the handler, and the
\* for loop goes on or the callback ends
handlerEndsCall ==
    /\ pc[PumpThread] \in {"done", "raised"}
    /\ pc' = [pc EXCEPT ![PumpThread] = "idle"]
    /\ IF pc[PumpThread] = "raised"
       THEN /\ outcomes' = Append(outcomes, "raised")
            /\ pumpPc' = "step"
            /\ handlerIdx' = 0
       ELSE IF handlerIdx = Len(userEventHandlers)
            THEN /\ outcomes' = Append(outcomes, "returned")
                 /\ pumpPc' = "step"
                 /\ handlerIdx' = 0
            ELSE /\ outcomes' = outcomes
                 /\ pumpPc' = "handlers"
                 /\ handlerIdx' = handlerIdx + 1
    /\ UNCHANGED <<lastCall, lifeVars, configVars, methodReturns, connVars, requested,
                   uuidCount, return_uuid, response, message, calls, printed,
                   delivered>>

\* a step of the pump thread inside the getGroupInfo its handler called
getGroupInfoInHandler ==
    /\ pumpPc = "inHandler"
    /\ \/ Query(PumpThread)
       \/ Check(PumpThread)
       \/ Sleep(PumpThread)
       \/ Read(PumpThread)
       \/ handlerEndsCall

(* --------------------- the fire-and-forget methods --------------------- *)

\* one native wrapper call on self.c_WhatsAppClientId, whose status code the
\* method turns into its return value
FireAndForget(operation) ==
    /\ Constructed
    /\ \E ret \in NativeStatus :
         lastCall' = [op |-> operation, status |-> ret, result |-> Result(operation, ret)]
    /\ UNCHANGED <<configVars, methodReturns, connVars, requested, callerVars,
                   pumpVars, lifeVars>>

sendMessage == FireAndForget("sendMessage")
sendImage == FireAndForget("sendImage")
sendVideo == FireAndForget("sendVideo")
sendDocument == FireAndForget("sendDocument")
joinGroupWithInviteLink == FireAndForget("joinGroupWithInviteLink")
setGroupAnnounce == FireAndForget("setGroupAnnounce")
setGroupLocked == FireAndForget("setGroupLocked")
setGroupName == FireAndForget("setGroupName")
setGroupTopic == FireAndForget("setGroupTopic")

(* ----------------------------- specification --------------------------- *)

Next ==
    \/ newClient
    \/ startPump
    \/ connect
    \/ disconnect
    \/ \E t \in Callers : getGroupInfo(t)
    \/ \E t \in Callers : getGroupInviteLink(t)
    \/ messageThread
    \/ forwardToHandler

Spec == Init /\ [][Next]_vars

\* threads are scheduled: a caller thread that can take a step and the pump
\* thread eventually do; the native layer owes no event
FairSpec ==
    /\ Spec
    /\ \A t \in Callers : WF_vars(getGroupInfo(t) \/ getGroupInviteLink(t))
    /\ WF_vars(messageThread \/ forwardToHandler)

\* the correlation core: the calls that wait for an event, and the pump; the
\* session calls are left out, they change nothing the core reads
CoreNext ==
    \/ newClient
    \/ startPump
    \/ \E t \in Callers : getGroupInfo(t)
    \/ \E t \in Callers : getGroupInviteLink(t)
    \/ messageThread
    \/ forwardToHandler

CoreSpec == Init /\ [][CoreNext]_vars

\* the client used for the methods that wait for no event, while the pump
\* dispatches events
FacadeNext ==
    \/ newClient
    \/ startPump
    \/ connect
    \/ disconnect
    \/ runMessageThread
    \/ sendMessage
    \/ sendImage
    \/ sendVideo
    \/ sendDocument
    \/ joinGroupWithInviteLink
    \/ setGroupAnnounce
    \/ setGroupLocked
    \/ setGroupName
    \/ setGroupTopic
    \/ messageThread
    \/ forwardToHandler

FacadeSpec == Init /\ [][FacadeNext]_vars

\* the client with a handler that may call getGroupInfo
ReentrantNext ==
    \/ newClient
    \/ startPump
    \/ connect
    \/ messageThread
    \/ forwardToHandler
    \/ handlerCallsGetGroupInfo
    \/ getGroupInfoInHandler

ReentrantSpec == Init /\ [][ReentrantNext]_vars

\* the pump thread is scheduled
FairReentrantSpec ==
    /\ ReentrantSpec
    /\ WF_vars(messageThread \/ forwardToHandler \/ handlerCallsGetGroupInfo
                \/ getGroupInfoInHandler)

(* ------------------------------- claims -------------------------------- *)

Last(seq) == seq[Len(seq)]

IsMethodReturn(m) == HasKey(m, "eventType") /\ m.d["eventType"] = "methodReturn"
IsBroadcast(m) == HasKey(m, "eventType") /\ m.d["eventType"] # "methodReturn"

\* this step is the event callback being invoked with a raw event
Delivers == Len(delivered') = Len(delivered) + 1
\* the message that invocation works on
DeliveredMsg == Parsed(Last(delivered'))

\* the caller thread is in the polling loop of its call
Waiting(t) == pc[t] \in {"check", "sleep"}
\* the call of t has returned a value
Returned(t) == pc[t] = "done"

\* the i-th callback invocation stored a methodReturn for id with payload p
StoredAt(i, id, p) ==
    /\ i <= Len(outcomes)
    /\ outcomes[i] = "returned"
    /\ IsMethodReturn(Parsed(delivered[i]))
    /\ Parsed(delivered[i]).d["callid"] = id
    /\ Parsed(delivered[i]).d["return"] = p

\* C1: a getGroupInfo / getGroupInviteLink call that has returned returned the
\* "return" field of a methodReturn event carrying its own request id, and the
\* dispatcher had stored that event before the call returned.
C1_ReturnsCorrelatedPayload ==
    \A t \in Callers :
        Returned(t) =>
            \E i \in 1..Len(delivered) : StoredAt(i, return_uuid[t], response[t])

\* two calls have returned, with different payloads
C1_Witness ==
    /\ \A t \in Callers : Returned(t)
    /\ response["t1"] # response["t2"]

\* the position in delivered of the last methodReturn event for id
LastReturnAt(id) ==
    LET idx == { i \in 1..Len(delivered) :
                    /\ IsMethodReturn(Parsed(delivered[i]))
                    /\ Parsed(delivered[i]).d["callid"] = id }
    IN  CHOOSE i \in idx : \A j \in idx : j <= i

\* C2: every methodReturn event the callback was invoked with made the
\* callback return normally and is in the correlation table under its call id
\* (unless a later methodReturn for the same id took its place), and no
\* handler was invoked with a methodReturn event.
C2_MethodReturnStoredNotForwarded ==
    /\ \A i \in 1..Len(delivered) :
          LET m == Parsed(delivered[i])
          IN  IsMethodReturn(m) =>
                /\ i <= Len(outcomes)
                /\ outcomes[i] = "returned"
                /\ HasReturn(methodReturns, m.d["callid"])
                /\ methodReturns[m.d["callid"]] = Parsed(delivered[LastReturnAt(m.d["callid"])])
    /\ \A j \in 1..Len(calls) : ~IsMethodReturn(calls[j][2])

\* a methodReturn event was dispatched after a broadcast event was forwarded
C2_Witness ==
    /\ Len(outcomes) = 2
    /\ Len(calls) = 1
    /\ IsMethodReturn(Parsed(delivered[2]))

\* the handler invocations that forwarding every broadcast event of raws to
\* every handler, in list order, makes
RECURSIVE ForwardsOf(_, _)
ForwardsOf(raws, handlers) ==
    IF raws = <<>> THEN <<>>
    ELSE LET m == Parsed(Head(raws))
         IN  (IF IsBroadcast(m) THEN [h \in 1..Len(handlers) |-> <<h, m>>] ELSE <<>>)
             \o ForwardsOf(Tail(raws), handlers)

\* C5: every event with an eventType other than methodReturn is forwarded to
\* every entry of the handler list, in list order, and adds or changes no
\* entry of the correlation table: the entries are methodReturn events only,
\* each under its own call id.
C5_BroadcastForwardedTableUntouched ==
    /\ pumpPc = "step" => calls = ForwardsOf(delivered, userEventHandlers)
    /\ pumpPc = "handlers" =>
          /\ IsBroadcast(message)
          /\ message = Parsed(Last(delivered))
          /\ calls \o [h \in 1..(Len(userEventHandlers) - handlerIdx + 1) |->
                          <<h + handlerIdx - 1, message>>]
                = ForwardsOf(delivered, userEventHandlers)
    /\ \A k \in DOMAIN methodReturns :
          /\ IsMethodReturn(methodReturns[k])
          /\ methodReturns[k].d["callid"] = k
          /\ \E i \in 1..Len(delivered) : Parsed(delivered[i]) = methodReturns[k]

\* an unknown event type and then a linkCode were forwarded to the handler
C5_Witness ==
    /\ pumpPc = "step"
    /\ Len(calls) = 2
    /\ calls[1][2] = OtherEvent
    /\ calls[2][2] \in {LinkCodeEvent(c) : c \in Codes}

\* C3: a call whose methodReturn event does not arrive stops waiting all the
\* same: it fails (RequestTimeout) and leaves no entry for its request id.
C3_WaitIsBounded ==
    \A t \in Callers :
        Waiting(t) ~> \/ HasReturn(methodReturns, return_uuid[t])
                      \/ (pc[t] = "raised" /\ ~HasReturn(methodReturns, return_uuid[t]))

\* C4: every call that was polling for its result when disconnect was invoked
\* stops polling (by failing with Disconnected) instead of waiting forever.
C4_DisconnectEndsWaiting ==
    \A t \in Callers :
        (connection = "disconnected" /\ t \in waitingAtDisconnect) ~> ~Waiting(t)

\* the payload of the first methodReturn event dispatched for id
FirstReturn(id) ==
    LET idx == { i \in 1..Len(delivered) :
                    /\ IsMethodReturn(Parsed(delivered[i]))
                    /\ Parsed(delivered[i]).d["callid"] = id }
        first == CHOOSE i \in idx : \A j \in idx : i <= j
    IN  IF idx = {} THEN NoValue ELSE Parsed(delivered[first]).d["return"]

\* C6: a call that has returned returned the payload of the first methodReturn
\* event dispatched for its request id, whatever was dispatched after it.
C6_FirstReturnWins ==
    \A t \in Callers : Returned(t) => response[t] = FirstReturn(return_uuid[t])

\* C7: once a call has returned, the correlation table has no entry for its
\* request id.
C7_EntryRemovedOnReturn ==
    \A t \in Callers : Returned(t) => ~HasReturn(methodReturns, return_uuid[t])

\* the request id belongs to a call that has been issued and has not returned
Pending(id) ==
    \E t \in Callers : return_uuid[t] = id /\ pc[t] \in {"query", "check", "sleep", "read"}

\* C8: dispatching a methodReturn event whose call id belongs to no pending
\* request leaves the correlation table as it was.
C8_StaleReturnIsNoOp ==
    [][ (Delivers /\ IsMethodReturn(DeliveredMsg) /\ ~Pending(DeliveredMsg.d["callid"]))
            => methodReturns' = methodReturns ]_vars

\* the buffer is not valid UTF-8, or not JSON, or not an object with eventType
IsMalformed(raw) ==
    \/ raw.enc # "utf8"
    \/ raw.doc.py # "dict"
    \/ "eventType" \notin DOMAIN raw.doc.d

\* C9: the callback invoked with a malformed buffer does not raise and goes on
\* to forward an event to the handlers.
C9_MalformedIsForwarded ==
    [][ (Delivers /\ IsMalformed(Last(delivered')))
            => (outcomes' = outcomes /\ pumpPc' = "handlers") ]_vars

\* C10: a handler invocation never ends the event callback with an exception.
C10_HandlerFailureContained ==
    [][ (calls' # calls)
            => ~(Len(outcomes') > Len(outcomes) /\ Last(outcomes') = "raised") ]_vars

\* C11: when the event callback is invoked with an event, no handler
\* invocation of an earlier event is running or still to come: the handlers
\* have been invoked for every earlier broadcast event, in delivery order and
\* list order, and have all ended.
C11_HandlersSeeDeliveryOrder ==
    [][ Delivers => /\ pumpPc = "step"
                    /\ calls = ForwardsOf(delivered, userEventHandlers) ]_vars

\* a linkCode event and then a qrCode event went through the handler
C11_Witness ==
    /\ pumpPc = "step"
    /\ Len(delivered) = 2
    /\ Len(calls) = 2
    /\ calls[1][2] \in {LinkCodeEvent(c) : c \in Codes}
    /\ calls[2][2] \in {QrCodeEvent(c) : c \in Codes}

\* how many positions of seq hold x
Count(seq, x) == Cardinality({i \in 1..Len(seq) : seq[i] = x})
\* how many times the callback was invoked with m
TimesDelivered(m) == Cardinality({i \in 1..Len(delivered) : Parsed(delivered[i]) = m})

\* C12: for every linkCode or qrCode event delivered, every handler is invoked
\* once with that event, and the code is presented once if print_qr_code is
\* set (the code as text, and for a qrCode its ASCII rendering too) and not at
\* all if it is not set.
C12_CodeEventOnceToEachHandler ==
    \A c \in Codes :
        /\ pumpPc = "step" =>
              \A m \in {LinkCodeEvent(c), QrCodeEvent(c)} :
                  \A h \in 1..Len(userEventHandlers) :
                      Count(calls, <<h, m>>) = TimesDelivered(m)
        /\ Count(printed, <<"text", c>>) =
              IF print_qr_code
              THEN TimesDelivered(LinkCodeEvent(c)) + TimesDelivered(QrCodeEvent(c))
              ELSE 0
        /\ Count(printed, <<"ascii", c>>) =
              IF print_qr_code THEN TimesDelivered(QrCodeEvent(c)) ELSE 0

\* with print_qr_code unset, a qrCode event reached the handler and nothing
\* was printed
C12_Witness ==
    /\ ~print_qr_code
    /\ pumpPc = "step"
    /\ \E c \in Codes : TimesDelivered(QrCodeEvent(c)) = 1 /\ Count(calls, <<1, QrCodeEvent(c)>>) = 1
    /\ printed = <<>>

\* C13: a fire-and-forget method called after disconnect fails with
\* Disconnected: it does not return a value made from a native status.
C13_FailsFastAfterDisconnect ==
    [][ (connection = "disconnected" /\ lastCall' # lastCall)
            => lastCall'.result.py = "Disconnected" ]_vars

\* the result of the last fire-and-forget call is a python bool
ReturnsBool == lastCall.result.py = "bool"

C14_CallInHandlerReturns ==
    (pc[PumpThread] \in {"query", "check", "sleep"}) ~> (pc[PumpThread] = "done")

\* C15: at most one thread runs the pump; it is running once the constructor
\* has returned, it was started when the native handle existed, and no call
\* of a public method (runMessageThread too) starts another.
C15_ExactlyOnePump ==
    /\ pumpThreads \in {0, 1}
    /\ pumpThreads = 1 => c_WhatsAppClientId # NoValue
    /\ (lastCall # NoCall \/ connection # "new" \/ delivered # <<>>) => pumpThreads = 1

\* runMessageThread was called on a disconnected client whose pump had
\* dispatched an event
C15_Witness ==
    /\ lastCall.op = "runMessageThread"
    /\ connection = "disconnected"
    /\ Len(delivered) >= 1
    /\ pumpThreads = 1

C17_PumpStopsOnDisconnect ==
    (connection = "disconnected") ~> (pumpThreads = 0)

\* the payloads of the methodReturn events dispatched for id
PayloadsFor(id) ==
    { Parsed(delivered[i]).d["return"] :
        i \in { j \in 1..Len(outcomes) :
                  /\ IsMethodReturn(Parsed(delivered[j]))
                  /\ Parsed(delivered[j]).d["callid"] = id } }

\* C19: a call leaves its polling loop only when a methodReturn event with
\* its own id has been dispatched, and the value it returns is the payload
\* of such an event, never one dispatched for another call only.
C19_NoCrossTalk ==
    \A t \in Callers :
        /\ pc[t] \in {"read", "done"} => PayloadsFor(return_uuid[t]) # {}
        /\ Returned(t) => response[t] \in PayloadsFor(return_uuid[t])

\* two calls were in flight, the answer to the later call was dispatched
\* first, and each call returned its own payload
C19_Witness ==
    /\ \A t \in Callers : Returned(t)
    /\ return_uuid["t1"] = UuidStr(1)
    /\ return_uuid["t2"] = UuidStr(2)
    /\ delivered = <<Raw("utf8", MethodReturnEvent(UuidStr(2), "pB")),
                     Raw("utf8", MethodReturnEvent(UuidStr(1), "pA"))>>
    /\ response["t1"] = "pA"
    /\ response["t2"] = "pB"

\* C20: the event callback and the handlers run only on a client whose
\* on_event is callable; on any other client the correlation table stays
\* empty and no getGroupInfo / getGroupInviteLink call leaves its polling
\* loop.
C20_NoCallbackNoDispatch ==
    /\ (delivered # <<>> \/ calls # <<>>) => on_event_callable
    /\ ~on_event_callable =>
          /\ DOMAIN methodReturns = {}
          /\ \A t \in Callers : pc[t] \notin {"read", "done", "raised"}

\* on a connected client without a callable on_event both threads have
\* handed their query to the native layer and are polling
C20_Witness ==
    /\ ~on_event_callable
    /\ connection = "connected"
    /\ Cardinality(requested) = 2
    /\ \A t \in Callers : pc[t] = "sleep"

====
